---- MODULE Spec2Model ----
(***************************************************************************)
(* Balance-gated request fulfilment of the Telegram GPT bot.               *)
(*                                                                         *)
(* database.py : the users table and the three ledger statements           *)
(*               (get_user, create_user, update_balance), each one its own *)
(*               transaction (get_cursor commits or rolls back).           *)
(* bot.py      : OpenAIService.generate_response and the two handlers      *)
(*               MessageHandler.handle_start_command / handle_text_message.*)
(*                                                                         *)
(* telebot runs every handler call on a thread of its worker pool, so      *)
(* handler calls interleave at the boundaries of the ledger transactions   *)
(* and of the OpenAI call.  A worker runs one handler call (one request)   *)
(* at a time and takes the next message when the call has returned.        *)
(***************************************************************************)
EXTENDS Integers, Sequences, FiniteSets, TLC

\* ---------------------------------------------------------------- bounds
NumUsers == 1
MaxCredits == 1

\* ------------------------------------------------------ program constants
\* BotConfig.default_free_requests
DefaultFreeRequests == 3

\* telebot.TeleBot(config.bot_token): threaded, and the worker pool that runs
\* the handlers has num_threads = 2 threads unless the call says otherwise.
num_threads == 2

Users == 1..NumUsers
Workers == 1..num_threads

\* The texts a message or a completion may hold.
Texts == {<<" ", " ">>, <<" ", "h", "i", " ">>}

\* The messages a user sends: the /start command, or a text.
Messages ==
    {[command |-> "start", text |-> <<"/", "s">>]}
        \cup {[command |-> "text", text |-> t] : t \in Texts}

\* ----------------------------------------------------------- str.strip()
RECURSIVE LStrip(_)
LStrip(s) == IF s # <<>> /\ Head(s) = " " THEN LStrip(Tail(s)) ELSE s

RECURSIVE RStrip(_)
RStrip(s) ==
    IF s # <<>> /\ s[Len(s)] = " " THEN RStrip(SubSeq(s, 1, Len(s) - 1)) ELSE s

Strip(s) == RStrip(LStrip(s))

\* ------------------------------------------------------------ get_cursor
\* Variant: the commit stands in the finally clause.
get_cursor_commit_in_finally(tbl, written, error) == written

\* DatabaseConnection.get_cursor around the statements of one ledger
\* operation.  tbl: the table when the operation begins; written: the table
\* with what the statements wrote; error: sqlite3.Error was raised by a
\* statement or by the commit.  The value is the table the operation leaves:
\* commit, or rollback (and DatabaseError).
get_cursor(tbl, written, error) == IF error THEN tbl ELSE written

\* ------------------------------------------------------- the users table
\* One element per row of table users; tg_id is the PRIMARY KEY.
NewRow(tg_id) ==
    [tg_id |-> tg_id, balance |-> DefaultFreeRequests, total_requests |-> 0]

\* The value of the handler's local `user` before get_or_create_user returns.
NoUser == [tg_id |-> 0, balance |-> 0, total_requests |-> 0]

RowsOf(tbl, tg_id) == {row \in tbl : row.tg_id = tg_id}

\* SELECT * FROM users WHERE tg_id = ? ; fetchone()  (None is NoUser)
get_user(tbl, tg_id) ==
    IF RowsOf(tbl, tg_id) = {} THEN NoUser
    ELSE CHOOSE row \in RowsOf(tbl, tg_id) : TRUE

\* Variant: INSERT OR REPLACE, which overwrites the row that is there.
InsertOrReplace(tbl, tg_id) == (tbl \ RowsOf(tbl, tg_id)) \cup {NewRow(tg_id)}

\* INSERT OR IGNORE INTO users (tg_id, ..., balance) VALUES (?, ..., default)
InsertOrIgnore(tbl, tg_id) ==
    IF RowsOf(tbl, tg_id) # {} THEN tbl ELSE tbl \cup {NewRow(tg_id)}

\* Variant: INSERT ... ON CONFLICT (tg_id) DO UPDATE SET balance = excluded.balance,
\* which grants the starting balance again.
create_user_regrant(tbl, tg_id) ==
    [table |-> {IF row.tg_id = tg_id
                THEN [row EXCEPT !.balance = DefaultFreeRequests] ELSE row :
                    row \in InsertOrIgnore(tbl, tg_id)},
     row |-> [get_user(InsertOrIgnore(tbl, tg_id), tg_id)
                  EXCEPT !.balance = DefaultFreeRequests]]

\* UserRepository.create_user: the INSERT, then the SELECT of the same
\* transaction.  table: the table once it has committed; row: the row returned.
create_user(tbl, tg_id) ==
    [table |-> InsertOrIgnore(tbl, tg_id),
     row |-> get_user(InsertOrIgnore(tbl, tg_id), tg_id)]

\* UPDATE users SET balance = balance + ?, total_requests = total_requests + ABS(?)
\* WHERE tg_id = ? AND balance + ? >= 0
\* with parameters (delta, -delta if delta < 0 else 0, tg_id, delta)
Abs(n) == IF n < 0 THEN -n ELSE n

\* Variant: WHERE tg_id = ? alone, without the balance guard.
UpdateMatchNoGuard(tbl, tg_id, delta) == RowsOf(tbl, tg_id)

UpdateMatch(tbl, tg_id, delta) ==
    {row \in tbl : row.tg_id = tg_id /\ row.balance + delta >= 0}

\* Variant: total_requests = total_requests + ABS(delta), whatever its sign.
UpdateRowAbsDelta(row, delta) ==
    [row EXCEPT !.balance = @ + delta,
                !.total_requests = @ + Abs(delta)]

UpdateRow(row, delta) ==
    [row EXCEPT !.balance = @ + delta,
                !.total_requests = @ + Abs(IF delta < 0 THEN -delta ELSE 0)]

\* Variant: return True whatever the UPDATE matched.
update_balance_true(tbl, tg_id, delta) ==
    [table |-> (tbl \ UpdateMatch(tbl, tg_id, delta))
                   \cup {UpdateRow(row, delta) : row \in UpdateMatch(tbl, tg_id, delta)},
     applied |-> TRUE]

\* Variant: cursor.rowcount > 1.
update_balance_off_by_one(tbl, tg_id, delta) ==
    [table |-> (tbl \ UpdateMatch(tbl, tg_id, delta))
                   \cup {UpdateRow(row, delta) : row \in UpdateMatch(tbl, tg_id, delta)},
     applied |-> Cardinality(UpdateMatch(tbl, tg_id, delta)) > 1]

\* Variant: the balance is checked by a SELECT and the UPDATE is unguarded
\* (check, then write).
update_balance_check_then_write(tbl, tg_id, delta) ==
    [table |-> (tbl \ RowsOf(tbl, tg_id))
                   \cup {UpdateRow(row, delta) : row \in RowsOf(tbl, tg_id)},
     applied |-> Cardinality(UpdateMatch(tbl, tg_id, delta)) > 0]

\* Variant: two statements, the first one counting the request whatever the
\* balance, the second one the guarded change of the balance.
update_balance_count_first(tbl, tg_id, delta) ==
    [table |-> (tbl \ RowsOf(tbl, tg_id))
                   \cup {IF row \in UpdateMatch(tbl, tg_id, delta)
                         THEN UpdateRow(row, delta)
                         ELSE [row EXCEPT !.total_requests =
                                               UpdateRow(row, delta).total_requests] :
                             row \in RowsOf(tbl, tg_id)},
     applied |-> Cardinality(UpdateMatch(tbl, tg_id, delta)) > 0]

\* table: the table once the transaction has committed; applied: cursor.rowcount > 0
update_balance(tbl, tg_id, delta) ==
    [table |-> (tbl \ UpdateMatch(tbl, tg_id, delta))
                   \cup {UpdateRow(row, delta) : row \in UpdateMatch(tbl, tg_id, delta)},
     applied |-> Cardinality(UpdateMatch(tbl, tg_id, delta)) > 0]

\* Variant: the cost is passed with the wrong sign.
ensure_sufficient_balance_sign(tbl, tg_id, cost) == update_balance(tbl, tg_id, cost)

\* DatabaseManager.ensure_sufficient_balance(tg_id, cost = 1)
ensure_sufficient_balance(tbl, tg_id, cost) == update_balance(tbl, tg_id, -cost)

\* ------------------------------------------- OpenAIService.generate_response
\* What openai.ChatCompletion.create does: it returns a response object with a
\* list of choices, or raises.  Timeout is openai.error.Timeout, APIError any
\* other subclass of openai.error.OpenAIError, Exception anything else.
ProviderErrors == {"AuthenticationError", "RateLimitError", "APIError", "Timeout", "Exception"}

ProviderResults ==
    {[kind |-> "response", choices |-> <<>>]}
        \cup {[kind |-> "response", choices |-> <<t>>] : t \in Texts}
        \cup {[kind |-> k, choices |-> <<>>] : k \in ProviderErrors}

\* The exception raised inside the try block, "none" when it returns.
\* bot.OpenAIError is the module's own class, a direct subclass of Exception.
RaisedInTry(res) ==
    IF res.kind # "response" THEN res.kind
    ELSE IF res.choices = <<>> THEN "bot.OpenAIError"
    ELSE "none"

\* The except clauses, in order.
ExceptMessage(exc) ==
    IF exc = "AuthenticationError" THEN "Invalid API key configuration"
    ELSE IF exc = "RateLimitError" THEN "Service temporarily unavailable due to high load"
    ELSE IF exc \in {"APIError", "Timeout"} THEN "AI service is currently unavailable"
    ELSE "Internal service error"

\* ok: the call returned text; otherwise it raised OpenAIError(error).
generate_response(res) ==
    IF RaisedInTry(res) = "none"
    THEN [ok |-> TRUE, text |-> Strip(res.choices[1]), error |-> ""]
    ELSE [ok |-> FALSE, text |-> <<>>, error |-> ExceptMessage(RaisedInTry(res))]

\* ------------------------------------------------------------------ state
\* Everything indexed by a worker belongs to the handler call it is running
\* (or has just finished).
VARIABLES
    users,           \* table users
    pc,              \* where each worker's handler call stands
    tg_id,           \* message.from_user.id
    command,         \* "start" (/start) or "text"
    user,            \* the handler's local `user`
    processing_msg,  \* whether the local `processing_msg` is bound
    response,        \* the handler's local `response`
    outcome,         \* what the handler call ended with
    created,         \* whether the running handler call ran create_user
    gateway_calls,   \* calls of generate_response made by the handler call
    debit_result,    \* its ensure_sufficient_balance: none, applied, rejected, fault
    debited,         \* units the call's UPDATE took off the balance
    counted,         \* units it added to total_requests
    balance_after,   \* balance of the account right after the call's own UPDATE
    inserted,        \* rows inserted for each tg_id
    credits,         \* units credited to each tg_id
    fulfilled        \* handler calls of each tg_id that delivered a response

locals == <<user, processing_msg, response, created>>
call_log == <<gateway_calls, debit_result, debited, counted, balance_after>>
ledger_log == <<inserted, credits, fulfilled>>

vars == <<users, pc, tg_id, command, locals, outcome, call_log, ledger_log>>

NoOutcome == [kind |-> "none", text |-> <<>>, balance |-> 0, reason |-> ""]

Outcome(kind, text, balance) ==
    [kind |-> kind, text |-> text, balance |-> balance, reason |-> ""]

Init ==
    /\ users = {}
    /\ pc = [w \in Workers |-> "idle"]
    /\ tg_id = [w \in Workers |-> 0]
    /\ command = [w \in Workers |-> "none"]
    /\ user = [w \in Workers |-> NoUser]
    /\ processing_msg = [w \in Workers |-> FALSE]
    /\ response = [w \in Workers |-> <<>>]
    /\ outcome = [w \in Workers |-> NoOutcome]
    /\ created = [w \in Workers |-> FALSE]
    /\ gateway_calls = [w \in Workers |-> 0]
    /\ debit_result = [w \in Workers |-> "none"]
    /\ debited = [w \in Workers |-> 0]
    /\ counted = [w \in Workers |-> 0]
    /\ balance_after = [w \in Workers |-> 0]
    /\ inserted = [u \in Users |-> 0]
    /\ credits = [u \in Users |-> 0]
    /\ fulfilled = [u \in Users |-> 0]

\* The handler call of worker w returns, or an exception leaves it: its locals
\* are gone.
Finish(w, result) ==
    /\ pc' = [pc EXCEPT ![w] = "done"]
    /\ outcome' = [outcome EXCEPT ![w] = result]
    /\ user' = [user EXCEPT ![w] = NoUser]
    /\ processing_msg' = [processing_msg EXCEPT ![w] = FALSE]
    /\ response' = [response EXCEPT ![w] = <<>>]
    /\ created' = [created EXCEPT ![w] = FALSE]

\* except DatabaseError of the handler that is running.  In handle_text_message
\* the clause edits processing_msg: when that local was never bound, evaluating
\* it raises UnboundLocalError, which no clause catches.
ExceptDatabaseError(w) ==
    IF command[w] = "start" THEN Finish(w, Outcome("StartError", <<>>, 0))
    ELSE IF processing_msg[w] THEN Finish(w, Outcome("SystemFailure", <<>>, 0))
    ELSE Finish(w, Outcome("UnboundLocalError", <<>>, 0))

\* except OpenAIError of handle_text_message: the processing message is edited
\* to the error's text.
ExceptOpenAIError(w, message) ==
    Finish(w, [Outcome("GatewayFailure", <<>>, 0) EXCEPT !.reason = message])

\* Variant: the text is tested for emptiness as it came, not stripped.
ReceiveNoStrip(w, u, cmd, text) ==
    /\ pc[w] \in {"idle", "done"}
    /\ tg_id' = [tg_id EXCEPT ![w] = u]
    /\ command' = [command EXCEPT ![w] = cmd]
    /\ gateway_calls' = [gateway_calls EXCEPT ![w] = 0]
    /\ debit_result' = [debit_result EXCEPT ![w] = "none"]
    /\ debited' = [debited EXCEPT ![w] = 0]
    /\ counted' = [counted EXCEPT ![w] = 0]
    /\ balance_after' = [balance_after EXCEPT ![w] = 0]
    /\ IF cmd = "text" /\ text = <<>>
       THEN Finish(w, Outcome("EmptyMessage", <<>>, 0))
       ELSE /\ pc' = [pc EXCEPT ![w] = "get_user"]
            /\ outcome' = [outcome EXCEPT ![w] = NoOutcome]
            /\ UNCHANGED locals
    /\ UNCHANGED <<users, ledger_log>>

\* A message arrives and telebot hands it to a free worker: a new handler
\* call.  handle_text_message strips the text and answers an empty one at once.
Receive(w, u, cmd, text) ==
    /\ pc[w] \in {"idle", "done"}
    /\ tg_id' = [tg_id EXCEPT ![w] = u]
    /\ command' = [command EXCEPT ![w] = cmd]
    /\ gateway_calls' = [gateway_calls EXCEPT ![w] = 0]
    /\ debit_result' = [debit_result EXCEPT ![w] = "none"]
    /\ debited' = [debited EXCEPT ![w] = 0]
    /\ counted' = [counted EXCEPT ![w] = 0]
    /\ balance_after' = [balance_after EXCEPT ![w] = 0]
    /\ IF cmd = "text" /\ Strip(text) = <<>>
       THEN Finish(w, Outcome("EmptyMessage", <<>>, 0))
       ELSE /\ pc' = [pc EXCEPT ![w] = "get_user"]
            /\ outcome' = [outcome EXCEPT ![w] = NoOutcome]
            /\ UNCHANGED locals
    /\ UNCHANGED <<users, ledger_log>>

\* Variant: the balance check is user['balance'] < 0.
HaveUserStrict(w, row, made) ==
    IF command[w] = "start"
    THEN /\ Finish(w, Outcome("Welcome", <<>>, row.balance))
         /\ UNCHANGED gateway_calls
    ELSE IF row.balance < 0
    THEN /\ Finish(w, Outcome("InsufficientBalance", <<>>, row.balance))
         /\ UNCHANGED gateway_calls
    ELSE /\ user' = [user EXCEPT ![w] = row]
         /\ created' = [created EXCEPT ![w] = made]
         /\ processing_msg' = [processing_msg EXCEPT ![w] = TRUE]
         /\ gateway_calls' = [gateway_calls EXCEPT ![w] = @ + 1]
         /\ pc' = [pc EXCEPT ![w] = "awaiting"]
         /\ UNCHANGED <<outcome, response>>

\* What the handler does with the row get_or_create_user returned, up to its
\* next call of the ledger or of the gateway.
\* handle_start_command: the welcome message with user['balance'].
\* handle_text_message: the balance check; then the "processing" message and
\* the call of generate_response, which sends the request to the provider.
\* made: whether the row came from create_user.
HaveUser(w, row, made) ==
    IF command[w] = "start"
    THEN /\ Finish(w, Outcome("Welcome", <<>>, row.balance))
         /\ UNCHANGED gateway_calls
    ELSE IF row.balance <= 0
    THEN /\ Finish(w, Outcome("InsufficientBalance", <<>>, row.balance))
         /\ UNCHANGED gateway_calls
    ELSE /\ user' = [user EXCEPT ![w] = row]
         /\ created' = [created EXCEPT ![w] = made]
         /\ processing_msg' = [processing_msg EXCEPT ![w] = TRUE]
         /\ gateway_calls' = [gateway_calls EXCEPT ![w] = @ + 1]
         /\ pc' = [pc EXCEPT ![w] = "awaiting"]
         /\ UNCHANGED <<outcome, response>>

\* Variant: the handler keeps one transaction open from get_or_create_user to
\* the debit, so a ledger operation waits while another handler call is
\* suspended on the provider.
GetUserUnderLock(w) ==
    /\ pc[w] = "get_user"
    /\ \A v \in Workers \ {w} : pc[v] # "awaiting"
    /\ IF get_user(users, tg_id[w]) # NoUser
       THEN HaveUser(w, get_user(users, tg_id[w]), FALSE)
       ELSE /\ pc' = [pc EXCEPT ![w] = "create_user"]
            /\ UNCHANGED <<locals, outcome, gateway_calls>>
    /\ UNCHANGED <<users, tg_id, command, debit_result,
                   debited, counted, balance_after, ledger_log>>

\* get_or_create_user: users.get_user, its own transaction.
GetUser(w) ==
    /\ pc[w] = "get_user"
    /\ IF get_user(users, tg_id[w]) # NoUser
       THEN HaveUser(w, get_user(users, tg_id[w]), FALSE)
       ELSE /\ pc' = [pc EXCEPT ![w] = "create_user"]
            /\ UNCHANGED <<locals, outcome, gateway_calls>>
    /\ UNCHANGED <<users, tg_id, command, debit_result,
                   debited, counted, balance_after, ledger_log>>

\* get_or_create_user: users.create_user, a second transaction.
CreateUser(w) ==
    /\ pc[w] = "create_user"
    /\ users' = create_user(users, tg_id[w]).table
    /\ inserted' = [inserted EXCEPT ![tg_id[w]] =
                        @ + Cardinality(RowsOf(users', tg_id[w]) \ users)]
    /\ HaveUser(w, create_user(users, tg_id[w]).row, TRUE)
    /\ UNCHANGED <<tg_id, command, debit_result,
                   debited, counted, balance_after, credits, fulfilled>>

\* What the statements of the ledger operation worker w stands at write.
Written(w) ==
    IF pc[w] = "create_user" THEN InsertOrIgnore(users, tg_id[w])
    ELSE IF pc[w] = "debit" THEN ensure_sufficient_balance(users, tg_id[w], 1).table
    ELSE users

\* sqlite3.Error inside get_cursor while a ledger operation of the handler
\* runs, at one of its statements or at the commit: rollback, DatabaseError.
LedgerFault(w) ==
    /\ pc[w] \in {"get_user", "create_user", "debit"}
    /\ users' = get_cursor(users, Written(w), TRUE)
    /\ debit_result' = [debit_result EXCEPT ![w] = IF pc[w] = "debit" THEN "fault" ELSE @]
    /\ ExceptDatabaseError(w)
    /\ UNCHANGED <<tg_id, command, gateway_calls,
                   debited, counted, balance_after, ledger_log>>

\* Variant: the handler debits before it knows how generate_response ended.
GatewayReturnDebitFirst(w, res) ==
    /\ pc[w] = "awaiting"
    /\ LET done == ensure_sufficient_balance(users, tg_id[w], 1)
           before == get_user(users, tg_id[w])
           after == get_user(done.table, tg_id[w])
       IN /\ users' = done.table
          /\ debited' = [debited EXCEPT ![w] = @ + before.balance - after.balance]
          /\ counted' = [counted EXCEPT ![w] =
                             @ + after.total_requests - before.total_requests]
          /\ balance_after' = [balance_after EXCEPT ![w] = after.balance]
          /\ debit_result' = [debit_result EXCEPT ![w] =
                                  IF done.applied THEN "applied" ELSE "rejected"]
          /\ IF ~generate_response(res).ok
             THEN ExceptOpenAIError(w, generate_response(res).error)
             ELSE IF ~done.applied
             THEN ExceptDatabaseError(w)
             ELSE /\ response' = [response EXCEPT ![w] = generate_response(res).text]
                  /\ pc' = [pc EXCEPT ![w] = "debited"]
                  /\ UNCHANGED <<outcome, user, processing_msg, created>>
    /\ UNCHANGED <<tg_id, command, gateway_calls, ledger_log>>

\* generate_response returns, or raises OpenAIError.
GatewayReturn(w, res) ==
    /\ pc[w] = "awaiting"
    /\ IF generate_response(res).ok
       THEN /\ response' = [response EXCEPT ![w] = generate_response(res).text]
            /\ pc' = [pc EXCEPT ![w] = "debit"]
            /\ UNCHANGED <<outcome, user, processing_msg, created>>
       ELSE ExceptOpenAIError(w, generate_response(res).error)
    /\ UNCHANGED <<users, tg_id, command, gateway_calls,
                   debit_result, debited, counted, balance_after, ledger_log>>

\* Variant: the handler does not look at what ensure_sufficient_balance
\* returned and delivers the response either way.
DebitIgnoreResult(w) ==
    /\ pc[w] = "debit"
    /\ LET done == ensure_sufficient_balance(users, tg_id[w], 1)
           before == get_user(users, tg_id[w])
           after == get_user(done.table, tg_id[w])
       IN /\ users' = done.table
          /\ debited' = [debited EXCEPT ![w] = @ + before.balance - after.balance]
          /\ counted' = [counted EXCEPT ![w] =
                             @ + after.total_requests - before.total_requests]
          /\ balance_after' = [balance_after EXCEPT ![w] = after.balance]
          /\ debit_result' = [debit_result EXCEPT ![w] =
                                  IF done.applied THEN "applied" ELSE "rejected"]
          /\ pc' = [pc EXCEPT ![w] = "debited"]
          /\ UNCHANGED <<outcome, locals>>
    /\ UNCHANGED <<tg_id, command, gateway_calls, ledger_log>>

\* db_manager.ensure_sufficient_balance(user_id): one UPDATE, one transaction.
\* A rejected debit raises DatabaseError("Failed to deduct balance").
Debit(w) ==
    /\ pc[w] = "debit"
    /\ LET done == ensure_sufficient_balance(users, tg_id[w], 1)
           before == get_user(users, tg_id[w])
           after == get_user(done.table, tg_id[w])
       IN /\ users' = done.table
          /\ debited' = [debited EXCEPT ![w] = @ + before.balance - after.balance]
          /\ counted' = [counted EXCEPT ![w] =
                             @ + after.total_requests - before.total_requests]
          /\ balance_after' = [balance_after EXCEPT ![w] = after.balance]
          /\ IF done.applied
             THEN /\ debit_result' = [debit_result EXCEPT ![w] = "applied"]
                  /\ pc' = [pc EXCEPT ![w] = "debited"]
                  /\ UNCHANGED <<outcome, locals>>
             ELSE /\ debit_result' = [debit_result EXCEPT ![w] = "rejected"]
                  /\ ExceptDatabaseError(w)
    /\ UNCHANGED <<tg_id, command, gateway_calls, ledger_log>>

\* _build_response_text(response, user['balance'] - 1), then edit_message_text.
Deliver(w) ==
    /\ pc[w] = "debited"
    /\ Finish(w, Outcome("Fulfilled", response[w], user[w].balance - 1))
    /\ fulfilled' = [fulfilled EXCEPT ![tg_id[w]] = @ + 1]
    /\ UNCHANGED <<users, tg_id, command, call_log, inserted, credits>>

SumCredits == LET RECURSIVE Sum(_)
                  Sum(U) == IF U = {} THEN 0
                            ELSE LET u == CHOOSE x \in U : TRUE
                                 IN credits[u] + Sum(U \ {u})
              IN Sum(Users)

\* A top-up or promo collaborator credits an account: update_balance with a
\* positive delta, MaxCredits units, once in a run.
Credit(u) ==
    /\ SumCredits = 0
    /\ users' = update_balance(users, u, MaxCredits).table
    /\ credits' = [credits EXCEPT ![u] =
                       @ + get_user(users', u).balance - get_user(users, u).balance]
    /\ UNCHANGED <<pc, tg_id, command, locals, outcome, call_log, inserted, fulfilled>>

Next ==
    \/ \E w \in Workers, u \in Users, m \in Messages :
           Receive(w, u, m.command, m.text)
    \/ \E w \in Workers : GetUser(w)
    \/ \E w \in Workers : CreateUser(w)
    \/ \E w \in Workers : LedgerFault(w)
    \/ \E w \in Workers, res \in ProviderResults : GatewayReturn(w, res)
    \/ \E w \in Workers : Debit(w)
    \/ \E w \in Workers : Deliver(w)
    \/ \E u \in Users : Credit(u)

Spec == Init /\ [][Next]_vars

\* ------------------------------------------------------- the race for the
\* last unit.  Every account holds 1 unit: DefaultFreeRequests plus the
\* credits it was given, less the requests already fulfilled.  Each worker
\* runs one text request; the provider answers every call; no credit, no
\* persistence fault.
InitRace ==
    /\ \E given \in [Users -> 0..MaxCredits] :
           /\ credits = given
           /\ fulfilled = [u \in Users |-> DefaultFreeRequests + given[u] - 1]
           /\ users = {[tg_id |-> u, balance |-> 1,
                        total_requests |-> DefaultFreeRequests + given[u] - 1] :
                           u \in Users}
    /\ pc = [w \in Workers |-> "idle"]
    /\ tg_id = [w \in Workers |-> 0]
    /\ command = [w \in Workers |-> "none"]
    /\ user = [w \in Workers |-> NoUser]
    /\ processing_msg = [w \in Workers |-> FALSE]
    /\ response = [w \in Workers |-> <<>>]
    /\ outcome = [w \in Workers |-> NoOutcome]
    /\ created = [w \in Workers |-> FALSE]
    /\ gateway_calls = [w \in Workers |-> 0]
    /\ debit_result = [w \in Workers |-> "none"]
    /\ debited = [w \in Workers |-> 0]
    /\ counted = [w \in Workers |-> 0]
    /\ balance_after = [w \in Workers |-> 0]
    /\ inserted = [u \in Users |-> 1]

Answers == {res \in ProviderResults : generate_response(res).ok}

NextRace ==
    \/ \E w \in Workers, u \in Users, text \in Texts :
           /\ pc[w] = "idle"
           /\ Strip(text) # <<>>
           /\ Receive(w, u, "text", text)
    \/ \E w \in Workers : GetUser(w)
    \/ \E w \in Workers, res \in Answers : GatewayReturn(w, res)
    \/ \E w \in Workers : Debit(w)
    \/ \E w \in Workers : Deliver(w)

SpecRace == InitRace /\ [][NextRace]_vars

\* ================================================================ claims
InFlight == {"awaiting", "debit", "debited"}

\* C1: in every reachable state every account's balance is >= 0.
NonNegativeBalance == \A row \in users : row.balance >= 0

\* A debit was tried on an account holding 0 and the account still holds 0.
NonNegativeBalanceWitness ==
    \E w \in Workers :
        /\ debit_result[w] = "rejected"
        /\ RowsOf(users, tg_id[w]) # {}
        /\ \A row \in RowsOf(users, tg_id[w]) : row.balance = 0

\* C2: a request whose gateway call failed made no debit attempt, ends in
\* GatewayFailure and changed neither balance nor total_requests; a debit is
\* attempted only by a request whose gateway call was made and did not fail.
GatewayFailureLeavesBalance ==
    \A w \in Workers :
        /\ outcome[w].kind = "GatewayFailure" =>
               /\ pc[w] = "done"
               /\ gateway_calls[w] = 1
               /\ debit_result[w] = "none"
               /\ debited[w] = 0
               /\ counted[w] = 0
        /\ (pc[w] \in {"debit", "debited"} \/ debit_result[w] # "none") =>
               /\ gateway_calls[w] = 1
               /\ outcome[w].kind # "GatewayFailure"

\* A request ended in GatewayFailure on a rate-limit error; the account it
\* read still holds its starting balance.
GatewayFailureWitness ==
    \E w \in Workers :
        /\ outcome[w].kind = "GatewayFailure"
        /\ outcome[w].reason = "Service temporarily unavailable due to high load"
        /\ get_user(users, tg_id[w]).balance = DefaultFreeRequests

\* C3: a request that ends in Fulfilled had exactly one debit of 1 unit applied
\* for it, and the debit was applied before the response was delivered.
FulfilledDebitedOnce ==
    \A w \in Workers :
        /\ outcome[w].kind = "Fulfilled" =>
               /\ debit_result[w] = "applied"
               /\ debited[w] = 1
               /\ counted[w] = 1
        /\ pc[w] = "debited" =>
               /\ debited[w] = 1
               /\ outcome[w] = NoOutcome

FulfilledWitness ==
    \E w \in Workers : outcome[w].kind = "Fulfilled" /\ debited[w] = 1

RequestsOf(u) == {w \in Workers : tg_id[w] = u}

FulfilledOf(u) == {w \in RequestsOf(u) : outcome[w].kind = "Fulfilled"}

\* C4 (SpecRace): two requests of a user holding 1 unit never both end
\* Fulfilled; once both have ended, exactly one is Fulfilled, the other is
\* InsufficientBalance or SystemFailure, and the balance is 0.
RaceOneFulfilled ==
    \A u \in Users :
        /\ Cardinality(FulfilledOf(u)) <= 1
        /\ (Cardinality(RequestsOf(u)) = 2 /\ \A w \in RequestsOf(u) : pc[w] = "done") =>
               /\ Cardinality(FulfilledOf(u)) = 1
               /\ \A w \in RequestsOf(u) \ FulfilledOf(u) :
                      outcome[w].kind \in {"InsufficientBalance", "SystemFailure"}
               /\ get_user(users, u).balance = 0

\* Both requests passed the balance check; one was fulfilled, the other's
\* debit was rejected.
RaceWitness ==
    \E u \in Users : \E w1, w2 \in RequestsOf(u) :
        /\ outcome[w1].kind = "Fulfilled"
        /\ outcome[w2].kind = "SystemFailure"
        /\ debit_result[w2] = "rejected"

\* A request that ended in InsufficientBalance called neither the gateway nor
\* the debit; a request past the balance check read a balance > 0.
InsufficientState ==
    \A w \in Workers :
        /\ outcome[w].kind = "InsufficientBalance" =>
               /\ pc[w] = "done"
               /\ outcome[w].balance <= 0
               /\ gateway_calls[w] = 0
               /\ debit_result[w] = "none"
               /\ debited[w] = 0
        /\ pc[w] \in InFlight => user[w].balance > 0

\* The step in which get_or_create_user returns a row to handle_text_message.
ReadsRow(w) ==
    /\ command[w] = "text"
    /\ pc[w] \in {"get_user", "create_user"}
    /\ pc'[w] \notin {"get_user", "create_user"}
    /\ outcome'[w].kind # "UnboundLocalError"

\* When the row read holds a balance <= 0, the same step ends the request in
\* InsufficientBalance with that balance.
InsufficientStep ==
    \A w \in Workers :
        (ReadsRow(w) /\ get_user(users', tg_id[w]).balance <= 0) =>
            /\ outcome'[w] = Outcome("InsufficientBalance", <<>>,
                                     get_user(users', tg_id[w]).balance)
            /\ pc'[w] = "done"
            /\ gateway_calls'[w] = 0

\* C5: a text request that reads a balance <= 0 ends in InsufficientBalance
\* carrying that balance, without a gateway call and without a debit.
InsufficientBalanceSkipsGateway == []InsufficientState /\ [][InsufficientStep]_vars

InsufficientWitness ==
    \E w \in Workers :
        /\ outcome[w] = Outcome("InsufficientBalance", <<>>, 0)
        /\ gateway_calls[w] = 0

TerminalOutcomes == {"Fulfilled", "InsufficientBalance", "GatewayFailure", "SystemFailure"}

\* C6: every text request (its text not empty) ends in one of Fulfilled,
\* InsufficientBalance, GatewayFailure, SystemFailure, whatever fault the
\* ledger or the gateway raises.
TextRequestEndsInOutcome ==
    \A w \in Workers :
        (pc[w] = "done" /\ command[w] = "text" /\ outcome[w].kind # "EmptyMessage") =>
            outcome[w].kind \in TerminalOutcomes

\* C7: a request whose debit was applied ends in Fulfilled with the response
\* delivered; until then its delivery is the step it can take.
ChargedImpliesFulfilled ==
    \A w \in Workers :
        debited[w] # 0 =>
            \/ pc[w] = "debited" /\ ENABLED Deliver(w)
            \/ pc[w] = "done" /\ outcome[w].kind = "Fulfilled"

ChargedWitness ==
    \E w \in Workers :
        /\ debited[w] = 1
        /\ pc[w] = "done"
        /\ outcome[w].kind = "Fulfilled"
        /\ outcome[w].text = <<"h", "i">>

\* C8: a request whose gateway call succeeded and whose debit was rejected ends
\* in SystemFailure, delivers no response, and leaves the balance at 0.
RejectedDebitIsSystemFailure ==
    \A w \in Workers :
        debit_result[w] = "rejected" =>
            /\ pc[w] = "done"
            /\ outcome[w] = Outcome("SystemFailure", <<>>, 0)
            /\ gateway_calls[w] = 1
            /\ debited[w] = 0
            /\ balance_after[w] = 0

RejectedDebitWitness ==
    \E w \in Workers :
        /\ debit_result[w] = "rejected"
        /\ outcome[w].kind = "SystemFailure"
        /\ balance_after[w] = 0

\* C9: the remaining balance a Fulfilled outcome reports is the account's
\* balance right after that request's own debit.
ReportedBalanceIsBalanceAfterDebit ==
    \A w \in Workers :
        outcome[w].kind = "Fulfilled" => outcome[w].balance = balance_after[w]

\* C10: however get_user and create_user of concurrent get_or_create_user
\* calls interleave, a tg_id has at most one row, the row was inserted once,
\* and the starting balance was granted once: balance plus the units spent is
\* the starting balance plus the credits.
OneAccountPerUser ==
    \A u \in Users :
        /\ Cardinality(RowsOf(users, u)) <= 1
        /\ inserted[u] = Cardinality(RowsOf(users, u))
        /\ \A row \in RowsOf(users, u) :
               row.balance + row.total_requests = DefaultFreeRequests + credits[u]

\* Two get_or_create_user calls for one tg_id both found no row; one created
\* the account, a request has spent from it, and then the other call's
\* create_user ran and returned the row that was there.
OneAccountWitness ==
    \E w1, w2 \in Workers :
        /\ w1 # w2
        /\ tg_id[w1] = tg_id[w2]
        /\ created[w2]
        /\ user[w2].total_requests > 0
        /\ Cardinality(RowsOf(users, tg_id[w2])) = 1
        /\ inserted[tg_id[w2]] = 1

\* The provider answered without usable content: no choice, or a first choice
\* whose text is empty once stripped.
NoUsableContent(res) ==
    /\ res.kind = "response"
    /\ (res.choices = <<>> \/ Strip(res.choices[1]) = <<>>)

\* C11: when the provider returns no usable content, the step in which
\* generate_response comes back ends the request in GatewayFailure; a request
\* never goes on to the debit, and never ends Fulfilled, with an empty response.
NoUsableContentIsGatewayFailure ==
    /\ [](\A w \in Workers :
              /\ pc[w] \in {"debit", "debited"} => response[w] # <<>>
              /\ outcome[w].kind = "Fulfilled" => outcome[w].text # <<>>)
    /\ [][\A w \in Workers, res \in ProviderResults :
              (GatewayReturn(w, res) /\ NoUsableContent(res)) =>
                  /\ pc'[w] = "done"
                  /\ outcome'[w].kind = "GatewayFailure"]_vars

\* The category the cause of a failed provider call belongs to.
CauseCategory(res) ==
    IF res.kind = "AuthenticationError" THEN "AuthFailure"
    ELSE IF res.kind = "RateLimitError" THEN "RateLimited"
    ELSE IF res.kind \in {"APIError", "Timeout"} THEN "ProviderUnavailable"
    ELSE IF res.kind = "response" THEN "EmptyResponse"
    ELSE "Unknown"

\* The category a message of generate_response's OpenAIError stands for.
MessageCategory(message) ==
    IF message = "Invalid API key configuration" THEN "AuthFailure"
    ELSE IF message = "Service temporarily unavailable due to high load" THEN "RateLimited"
    ELSE IF message = "AI service is currently unavailable" THEN "ProviderUnavailable"
    ELSE IF message = "Empty response from OpenAI" THEN "EmptyResponse"
    ELSE "Unknown"

\* C12: the error a failed gateway call surfaces with stands for the category
\* of its cause: authentication -> AuthFailure, rate limit -> RateLimited,
\* another provider error or a timeout -> ProviderUnavailable, an empty
\* response -> EmptyResponse, anything else -> Unknown.
FailureClassifiedByCause ==
    [][\A w \in Workers, res \in ProviderResults :
           (GatewayReturn(w, res) /\ outcome'[w].kind = "GatewayFailure") =>
               MessageCategory(outcome'[w].reason) = CauseCategory(res)]_vars

\* The handler calls of user u that have not returned yet.
Running(u) == {w \in RequestsOf(u) : pc[w] \notin {"idle", "done"}}

\* C13: for a user who was given no credit, the requests that ended Fulfilled
\* never number more than the starting balance, and whenever all the user's
\* requests have terminated the balance is the starting balance less the
\* number of requests that ended Fulfilled.
FinalBalanceIsStartLessFulfilled ==
    \A u \in Users :
        credits[u] = 0 =>
            /\ fulfilled[u] <= DefaultFreeRequests
            /\ Running(u) = {} =>
                   \A row \in RowsOf(users, u) :
                       row.balance = DefaultFreeRequests - fulfilled[u]

\* Every unit of the starting balance went to a fulfilled request, the last
\* one while another request of the user was running, and that request's
\* debit was rejected.
FinalBalanceWitness ==
    \E u \in Users : \E w1, w2 \in RequestsOf(u) :
        /\ credits[u] = 0
        /\ Running(u) = {}
        /\ fulfilled[u] = DefaultFreeRequests
        /\ get_user(users, u).balance = 0
        /\ outcome[w1].kind = "Fulfilled"
        /\ debit_result[w2] = "rejected"

\* A handler call has ended on the gateway's authentication failure.
AuthFailed ==
    \E w \in Workers :
        /\ outcome[w].kind = "GatewayFailure"
        /\ MessageCategory(outcome[w].reason) = "AuthFailure"

\* C14: once a gateway call has failed with AuthFailure, no step of any
\* request calls generate_response again.
AuthFailureStopsGatewayCalls ==
    [][AuthFailed => \A w \in Workers : gateway_calls'[w] <= gateway_calls[w]]_vars

\* The handler calls whose debit of account u this step applies.
AppliedNow(u) ==
    {w \in RequestsOf(u) : pc[w] = "debit" /\ debit_result'[w] = "applied"}

\* total_requests of account u is the number of debits applied to it: those of
\* the requests that ended Fulfilled and of the requests about to deliver.
TotalRequestsState ==
    \A u \in Users : \A row \in RowsOf(users, u) :
        row.total_requests =
            fulfilled[u] + Cardinality({w \in RequestsOf(u) : pc[w] = "debited"})

\* A step adds to total_requests of an account the debits it applies, each
\* together with its unit off the balance; a credit and a rejected debit add
\* nothing.
TotalRequestsStep ==
    IF users' = users
    THEN \A w \in Workers : pc[w] = "debit" => debit_result'[w] # "applied"
    ELSE \A u \in Users :
             LET before == get_user(users, u)
                 after == get_user(users', u)
             IN /\ after.total_requests >= before.total_requests
                /\ after.total_requests =
                       before.total_requests + Cardinality(AppliedNow(u))
                /\ RowsOf(users, u) # {} =>
                       after.balance = before.balance - Cardinality(AppliedNow(u))
                                           + (credits'[u] - credits[u])
                /\ \A w \in RequestsOf(u) :
                       (pc[w] = "debit" /\ debit_result'[w] = "rejected") =>
                           after = before

\* C15: total_requests of every account never decreases and is the number of
\* debits applied to the account; an applied debit adds exactly 1 in the step
\* that takes the unit off the balance, a credit and a rejected debit leave it
\* as it was.
TotalRequestsCountsDebits == []TotalRequestsState /\ [][TotalRequestsStep]_vars

\* An account was credited, every unit of it was debited, and a further debit
\* was rejected: total_requests counts the debits alone.
TotalRequestsWitness ==
    \E u \in Users : \E w \in RequestsOf(u) :
        /\ credits[u] = MaxCredits
        /\ get_user(users, u).total_requests = DefaultFreeRequests + MaxCredits
        /\ debit_result[w] = "rejected"

\* C16: a debit whose result would be negative is rejected with no partial
\* effect, and ensure_sufficient_balance returns True exactly when the debit
\* was applied.  For the debit a handler call has made: when it returned False
\* the account held 0 and neither balance nor total_requests changed; it
\* returned True exactly when the balance changed, and then one unit went off
\* the balance, one onto total_requests, and the balance left is not negative.
RejectedDebitHasNoEffect ==
    \A w \in Workers :
        /\ debit_result[w] = "rejected" =>
               /\ debited[w] = 0
               /\ counted[w] = 0
               /\ balance_after[w] = 0
        /\ debit_result[w] = "applied" <=> debited[w] # 0
        /\ debit_result[w] = "applied" <=> counted[w] # 0
        /\ debit_result[w] = "applied" =>
               /\ debited[w] = 1
               /\ counted[w] = 1
               /\ balance_after[w] >= 0

\* A handler call's debit was rejected on an account that holds nothing and
\* has counted the requests it paid for, no more; a further debit would be
\* rejected as well.
RejectedDebitNoEffectWitness ==
    \E w \in Workers :
        /\ debit_result[w] = "rejected"
        /\ debited[w] = 0
        /\ counted[w] = 0
        /\ get_user(users, tg_id[w]).balance = 0
        /\ get_user(users, tg_id[w]).total_requests = DefaultFreeRequests + credits[tg_id[w]]
        /\ ~ensure_sufficient_balance(users, tg_id[w], 1).applied

\* The handler calls of user u whose debit is applied and whose response is
\* not delivered yet.
Delivering(u) == {w \in RequestsOf(u) : pc[w] = "debited"}

\* C17: a ledger operation that ends with a persistence fault leaves the table
\* as it was when it began, whichever statement or commit failed: no row is
\* inserted by a failed create_user, no unit is taken by a failed debit or
\* given by a failed credit.  So a row exists only for an insert that
\* committed, every unit off a balance belongs to a request that is or will be
\* Fulfilled, and a request whose debit met the fault after its gateway call
\* succeeded ends in SystemFailure with nothing debited.
FaultAppliesNothing ==
    /\ \A u \in Users :
           /\ get_cursor(users, create_user(users, u).table, TRUE) = users
           /\ get_cursor(users, ensure_sufficient_balance(users, u, 1).table, TRUE) = users
           /\ get_cursor(users, update_balance(users, u, 1).table, TRUE) = users
           /\ inserted[u] = Cardinality(RowsOf(users, u))
           /\ \A row \in RowsOf(users, u) :
                  row.balance = DefaultFreeRequests + credits[u]
                                    - fulfilled[u] - Cardinality(Delivering(u))
    /\ \A w \in Workers :
           debit_result[w] = "fault" =>
               /\ pc[w] = "done"
               /\ outcome[w].kind = "SystemFailure"
               /\ gateway_calls[w] = 1
               /\ debited[w] = 0
               /\ counted[w] = 0

\* The debit of a request whose gateway call succeeded met the fault: the
\* account still holds its starting balance, and nothing was counted.
FaultWitness ==
    \E w \in Workers :
        /\ debit_result[w] = "fault"
        /\ outcome[w].kind = "SystemFailure"
        /\ get_user(users, tg_id[w]) = NewRow(tg_id[w])
        /\ fulfilled[tg_id[w]] = 0

\* The step in which get_or_create_user of worker w returns the row of an
\* account that was there before the step.
ReturnsExisting(w) ==
    /\ pc[w] \in {"get_user", "create_user"}
    /\ RowsOf(users, tg_id[w]) # {}
    /\ \/ pc'[w] = "awaiting"
       \/ outcome'[w].kind \in {"Welcome", "InsufficientBalance"}

\* A step changes the table only by update_balance on one account or by
\* inserting the row of a tg_id that had none; it removes no row.  When
\* get_or_create_user finds the account, for /start or for a text, the table
\* stays as it is and the handler gets the row that is stored.
LedgerStep ==
    /\ \A u \in Users : RowsOf(users, u) # {} => RowsOf(users', u) # {}
    /\ users' # users =>
           \E u \in Users :
               \/ \E delta \in {-1, MaxCredits} :
                      users' = update_balance(users, u, delta).table
               \/ /\ RowsOf(users, u) = {}
                  /\ users' = users \cup {NewRow(u)}
    /\ \A w \in Workers :
           ReturnsExisting(w) =>
               /\ users' = users
               /\ pc'[w] = "awaiting" => user'[w] = get_user(users, tg_id[w])
               /\ pc'[w] = "done" =>
                      outcome'[w].balance = get_user(users, tg_id[w]).balance

\* C18: an account's balance changes only through update_balance;
\* get_or_create_user on an account that exists returns it as it is stored,
\* for a text request and for /start, under every interleaving with debits;
\* no account is ever deleted.
BalanceChangesOnlyByUpdate == [][LedgerStep]_vars

\* /start on an account that has spent two units: the welcome shows the
\* balance that is left, and the account still holds it.
StartKeepsBalanceWitness ==
    \E w \in Workers :
        /\ command[w] = "start"
        /\ outcome[w].kind = "Welcome"
        /\ outcome[w].balance = DefaultFreeRequests - 2
        /\ get_user(users, tg_id[w]).balance = DefaultFreeRequests - 2
        /\ get_user(users, tg_id[w]).total_requests = 2

EmptyMessageState ==
    \A w \in Workers :
        outcome[w].kind = "EmptyMessage" =>
            /\ pc[w] = "done"
            /\ command[w] = "text"
            /\ gateway_calls[w] = 0
            /\ debit_result[w] = "none"
            /\ debited[w] = 0
            /\ counted[w] = 0

\* The step that takes in a text message which is empty once stripped ends
\* the handler call with the empty-message answer and leaves the table as it
\* is.
EmptyMessageStep ==
    \A w \in Workers, u \in Users, text \in Texts :
        (/\ pc[w] \in {"idle", "done"}
         /\ tg_id'[w] = u
         /\ command'[w] = "text"
         /\ Strip(text) = <<>>
         /\ Receive(w, u, "text", text)) =>
            /\ pc'[w] = "done"
            /\ outcome'[w] = Outcome("EmptyMessage", <<>>, 0)
            /\ gateway_calls'[w] = 0
            /\ users' = users
            /\ inserted' = inserted

\* C20: a text request whose text is empty after stripping is answered at once,
\* before any ledger or gateway access: no account is created, the gateway is
\* not called, and no balance or total_requests changes.
EmptyTextRejectedFirst == []EmptyMessageState /\ [][EmptyMessageStep]_vars

\* A blank text from a user who has no account was answered, and there is
\* still no account.
EmptyTextWitness ==
    \E w \in Workers :
        /\ outcome[w].kind = "EmptyMessage"
        /\ RowsOf(users, tg_id[w]) = {}
        /\ inserted[tg_id[w]] = 0
        /\ gateway_calls[w] = 0

====
